---- MODULE Spec2Model ----
(***************************************************************************)
(* Model of InOneWeekend/src/main.cpp: the path integrator ray_color, the  *)
(* row worker render_block, and main's event loop that spawns, polls and   *)
(* joins the workers.                                                      *)
(*                                                                         *)
(* Colours are fixed point: a channel value v stands for v / Unit.         *)
(***************************************************************************)
EXTENDS Integers, Sequences, FiniteSets, TLC

\* ------------------------------------------------------------------ sizes
\* main.cpp:71-74 with the image scaled down (800x450, 50 samples, depth 10).
image_width == 2
image_height == 3
samples_per_pixel == 1
max_depth == 2
\* Rows of progress between two preview uploads (10 for the 450 rows).
preview_rows == 2
\* Largest value std::thread::hardware_concurrency() is taken to return.
MaxHardwareThreads == 2
\* Thread count used when the hardware count cannot be detected.
DefaultThreads == 4
\* Inputs of the row partition when it is checked on its own.
MaxPartThreads == 5
MaxPartHeight == 7

\* Three decimal digits of fixed point.
Unit == 10 * 10 * 10

VARIABLES
    pc,              \* position of the main thread
    num_threads,     \* result of hardware_concurrency()
    actual_threads,  \* thread count main renders with
    console,         \* lines written to std::cout
    rendering, rendered,
    threads,         \* std::vector<std::thread> with each worker's position
    spawn_t,         \* loop variable t of the spawn loop
    completed_rows,  \* std::atomic<int>
    pixels,          \* Color* pixels, indexed 0 .. width*height-1
    last_update,     \* static int last_update
    texture,         \* which UpdateTexture call filled the texture last
    freed,           \* MemFree(pixels) has run
    seed,            \* the seed the thread-local random generators start from
    world,           \* rt::hittable_list world: the spheres added so far
    cam,             \* rt::camera cam: "declared" or "initialized"
    polled,          \* current_completed as the last poll of this pass read it
    pass_update,     \* current_completed at the last preview upload of this pass
    uaf,             \* a worker has stored a pixel after MemFree(pixels)
    writes,          \* per pixel index: ids of the workers that wrote it this pass
    scaled,          \* per pixel index: 256 * clamped channel before the byte cast
    rc,              \* one evaluation of ray_color
    part             \* one evaluation of the row partition

vars == <<pc, num_threads, actual_threads, console, rendering, rendered, threads,
          spawn_t, completed_rows, pixels, last_update, texture, freed, seed,
          world, cam, polled, pass_update, uaf, writes, scaled, rc, part>>

mainVars == <<pc, num_threads, actual_threads, console, rendering, rendered, threads,
              spawn_t, completed_rows, pixels, last_update, texture, freed, seed,
              world, cam, polled, pass_update, uaf, writes, scaled>>

\* What no step of the event loop and no worker changes.
fixedVars == <<num_threads, actual_threads, console, seed, world, cam, rc, part>>

\* ------------------------------------------------------------- vec3, Color
Vec(x, y, z) == <<x, y, z>>

\* vec3 operator* (component-wise product), truncated to the fixed point.
VecMul_sum(a, b) == <<a[1] + b[1], a[2] + b[2], a[3] + b[3]>>
VecMul(a, b) == <<(a[1] * b[1]) \div Unit, (a[2] * b[2]) \div Unit, (a[3] * b[3]) \div Unit>>

VecAdd(a, b) == <<a[1] + b[1], a[2] + b[2], a[3] + b[3]>>

BLACK == [r |-> 0, g |-> 0, b |-> 0, a |-> 255]

PixelIndices == 0 .. (image_width * image_height - 1)

\* ------------------------------------------------- scene, materials, rays
\* A material is [kind, albedo]; a scene is the sequence of its spheres'
\* materials (the geometry is abstracted into the fate of each ray, below).
Lambertian(albedo) == [kind |-> "lambertian", albedo |-> albedo]
Metal(albedo) == [kind |-> "metal", albedo |-> albedo]
Dielectric == [kind |-> "dielectric", albedo |-> Vec(Unit, Unit, Unit)]

\* The fixed spheres main adds to world: ground, glass, diffuse, metal.
MainWorld ==
    << Lambertian(Vec(500, 500, 500)),
       Dielectric,
       Lambertian(Vec(400, 200, 100)),
       Metal(Vec(700, 600, 500)) >>

\* The two diffuse spheres of the end-to-end scenario.
TwoSphereWorld == << Lambertian(Vec(800, 800, 0)), Lambertian(Vec(100, 200, 500)) >>

EmptyWorld == << >>

Worlds == {EmptyWorld, TwoSphereWorld, MainWorld}

\* One leg of a light path: what the geometry and the random draws do to one
\* ray.  obj is the sphere nearest along the ray (0: the ray meets none of the
\* four positions), y the vertical component of its unit direction, reflects
\* whether a fuzzed metal reflection leaves the surface.
Legs ==
    { l \in [obj : 0 .. Len(MainWorld), y : {0 - Unit, 600}, reflects : BOOLEAN] :
        (l.obj # Len(MainWorld)) => l.reflects }

\* A ray together with the legs that follow it: one leg per invocation, and one
\* more than the depth budget.
PathLen == max_depth + 1
Paths == [1 .. PathLen -> Legs]

\* hittable_list::hit: true iff some sphere of the scene is met.
WorldHit(wd, leg) == leg.obj \in DOMAIN wd

\* material::scatter: diffuse and dielectric always scatter, metal absorbs a
\* reflection that points into the surface.
ScatterOk(mat, leg) == (mat.kind = "metal") => leg.reflects

Attenuation(mat) == mat.albedo

\* ------------------------------------------------------------- ray_color
DepthExhausted_lt(depth) == depth < 0
DepthExhausted(depth) == depth <= 0

\* (1.0 - t)*vec3(1,1,1) + t*vec3(0.5,0.7,1.0) with t = 0.5*(y + 1.0)
SkyChannel(t, c) == ((Unit - t) * Unit + t * c) \div Unit
Sky_swapped(y) ==
    LET t == (y + Unit) \div 2
    IN  Vec(SkyChannel(Unit - t, 500), SkyChannel(Unit - t, 700), SkyChannel(Unit - t, 1000))
Sky(y) ==
    LET t == (y + Unit) \div 2
    IN  Vec(SkyChannel(t, 500), SkyChannel(t, 700), SkyChannel(t, 1000))

Absorbed == Vec(0, 0, 0)

\* The value ray_color returns, with the number of invocations, of scene
\* queries (world.hit) and of material queries (scatter) it made.
RECURSIVE RayColor(_, _, _)
RayColor(path, wd, depth) ==
    IF DepthExhausted(depth)
    THEN [color |-> Vec(0, 0, 0), calls |-> 1, hits |-> 0, scatters |-> 0, branch |-> "depth"]
    ELSE LET r == Head(path) IN
         IF WorldHit(wd, r)
         THEN LET mat == wd[r.obj] IN
              IF ScatterOk(mat, r)
              THEN LET sub == RayColor(Tail(path), wd, depth - 1)
                   IN  [color |-> VecMul(Attenuation(mat), sub.color),
                        calls |-> sub.calls + 1, hits |-> sub.hits + 1,
                        scatters |-> sub.scatters + 1, branch |-> "scatter"]
              ELSE [color |-> Absorbed, calls |-> 1, hits |-> 1, scatters |-> 1,
                    branch |-> "absorb"]
         ELSE [color |-> Sky(r.y), calls |-> 1, hits |-> 1, scatters |-> 0,
               branch |-> "sky"]

\* ---------------------------------------------------------- render_block
\* The largest k in lo .. hi with k * k <= n, by bisection.  (A value is bound
\* through a one-element set where it is used many times, so that it is
\* computed once.)
RECURSIVE ISqrtBetween(_, _, _)
ISqrtBetween(n, lo, hi) ==
    IF lo >= hi THEN lo
    ELSE CHOOSE k \in
           { IF mid <= n \div mid THEN ISqrtBetween(n, mid, hi)
             ELSE ISqrtBetween(n, lo, mid - 1) : mid \in {(lo + hi + 1) \div 2} } : TRUE

\* sqrt(scale * channel) with scale = 1.0 / samples, in fixed point.
GammaChannel(sum, samples) ==
    CHOOSE k \in { ISqrtBetween(n, 0, n) : n \in {(sum * Unit) \div samples} } : TRUE

\* std::clamp(v, lo, hi)
Clamp(v, lo, hi) == IF v < lo THEN lo ELSE IF hi < v THEN hi ELSE v

ClampLow == 0
ClampHigh_one == Unit
ClampHigh == 999

\* 256 * std::clamp(c, 0.0, 0.999), truncated toward zero
Scale256(c) == (256 * Clamp(c, ClampLow, ClampHigh)) \div Unit

\* the (unsigned char) cast of a non-negative integer
ToByte(n) == n % 256

\* pixel_color after the sample loop: the sum of ray_color over the samples.
RECURSIVE PixelSum(_, _, _)
PixelSum(samples, wd, depth) ==
    IF samples = << >> THEN Vec(0, 0, 0)
    ELSE VecAdd(RayColor(Head(samples), wd, depth).color,
                PixelSum(Tail(samples), wd, depth))

\* The three channels before the byte cast.
Scaled(sum, nsamples) ==
    << Scale256(GammaChannel(sum[1], nsamples)),
       Scale256(GammaChannel(sum[2], nsamples)),
       Scale256(GammaChannel(sum[3], nsamples)) >>

\* The Color written to pixels[j * width + i].
ToColor(s) == [r |-> ToByte(s[1]), g |-> ToByte(s[2]), b |-> ToByte(s[3]), a |-> 255]

PixelIndex_row(j, i, width) == j * width
PixelIndex(j, i, width) == j * width + i

\* camera::get_ray(i, j): the jittered ray through a pixel either leaves
\* the scene at once (full white sky) or meets the ground and then the sky.
LegSkyDown == [obj |-> 0, y |-> 0 - Unit, reflects |-> TRUE]
LegSkyUp == [obj |-> 0, y |-> 600, reflects |-> TRUE]
LegGround == [obj |-> 1, y |-> 0 - Unit, reflects |-> TRUE]
PathOf(first, rest) == [k \in 1 .. PathLen |-> IF k = 1 THEN first ELSE rest]
CameraRays ==
    { PathOf(LegSkyDown, LegSkyDown), PathOf(LegGround, LegSkyUp) }

\* The random generators are thread local: each worker draws from a generator
\* of its own, which starts from the run's seed and the worker's number.  The
\* k-th draw of worker t decides which of the camera rays a sample follows.
Seeds == {0, 1}
RandomDraw(sd, t, k) == (sd + t + (k * (k + 1)) \div 2) % 2
RayOfDraw(v) ==
    IF v = 0 THEN PathOf(LegSkyDown, LegSkyDown) ELSE PathOf(LegGround, LegSkyUp)

\* The samples of one pixel: the next samples_per_pixel draws of worker t,
\* whose generator has been drawn from k times.
SamplesOf(sd, t, k) ==
    [n \in 1 .. samples_per_pixel |-> RayOfDraw(RandomDraw(sd, t, k + n - 1))]

\* ------------------------------------------------------- row partition
RowsPerThread(h, n) == h \div n
RemainingRows(h, n) == h % n
StartRow_zero(t, h, n) == 0
StartRow(t, h, n) == t * RowsPerThread(h, n)
EndRow_noRemainder(t, h, n) == StartRow(t, h, n) + RowsPerThread(h, n)
EndRow(t, h, n) ==
    StartRow(t, h, n) + RowsPerThread(h, n)
        + (IF t = n - 1 THEN RemainingRows(h, n) ELSE 0)

\* ---------------------------------------------------------------- startup
\* const int actual_threads = (num_threads == 0) ? 4 : num_threads;
ActualThreads_one(n) == IF n = 0 THEN 1 ELSE n
ActualThreads(n) == IF n = 0 THEN DefaultThreads ELSE n

\* What main prints before the window opens.
StartupConsole(n) ==
    (IF n = 0 THEN << "Could not detect number of threads, using 4" >> ELSE << >>)
        \o << "Using threads for rendering" >>

AllBlack == [idx \in PixelIndices |-> BLACK]
NoWrites == [idx \in PixelIndices |-> << >>]
NoScaled == [idx \in PixelIndices |-> << 0, 0, 0 >>]

RcIdle == [st |-> "idle", path |-> << >>, world |-> << >>, depth |-> 0, out |-> << >>]
PartIdle == [st |-> "idle", n |-> 0, h |-> 0, t |-> 0, ranges |-> << >>]

\* The state after the window, the pixel buffer (filled with BLACK) and the
\* texture have been created, for a detected thread count hw: the scene is
\* still empty and the camera not yet initialized.
MainInit(hw) ==
    /\ pc = "scene"
    /\ num_threads = hw
    /\ actual_threads = ActualThreads(hw)
    /\ console = StartupConsole(hw)
    /\ rendering = FALSE
    /\ rendered = FALSE
    /\ threads = << >>
    /\ spawn_t = 0
    /\ completed_rows = 0
    /\ pixels = AllBlack
    /\ last_update = 0
    /\ texture = "blank"
    /\ freed = FALSE
    /\ seed \in Seeds
    /\ world = << >>
    /\ cam = "declared"
    /\ polled = 0
    /\ pass_update = 0
    /\ uaf = FALSE
    /\ writes = NoWrites
    /\ scaled = NoScaled

Init ==
    /\ \E hw \in 0 .. MaxHardwareThreads : MainInit(hw)
    /\ rc = RcIdle
    /\ part = PartIdle

\* Every sphere of the scene has been added.
SceneBuilt_first(w) == Len(w) >= 1
SceneBuilt(w) == Len(w) = Len(MainWorld)

\* world.add(make_shared<rt::sphere>(...)): the next sphere joins the scene.
AddSphere ==
    /\ pc = "scene"
    /\ ~SceneBuilt(world)
    /\ world' = Append(world, MainWorld[Len(world) + 1])
    /\ UNCHANGED <<pc, num_threads, actual_threads, console, rendering, rendered,
                   threads, spawn_t, completed_rows, pixels, last_update, texture,
                   freed, seed, cam, polled, pass_update, uaf, writes, scaled, rc, part>>

\* The camera is configured and cam.initialize() runs; the event loop follows.
InitCamera ==
    /\ pc = "scene"
    /\ SceneBuilt(world)
    /\ cam' = "initialized"
    /\ pc' = "loop"
    /\ UNCHANGED <<num_threads, actual_threads, console, rendering, rendered,
                   threads, spawn_t, completed_rows, pixels, last_update, texture,
                   freed, seed, world, polled, pass_update, uaf, writes, scaled, rc, part>>

\* ------------------------------------------------------------ event loop
ProgressReset_keep == completed_rows
ProgressReset == 0

NewThread(t) ==
    [start_row |-> StartRow(t, image_height, actual_threads),
     end_row |-> EndRow(t, image_height, actual_threads),
     j |-> StartRow(t, image_height, actual_threads),
     i |-> 0,
     rng |-> 0,
     st |-> "running"]

Joinable(th) == th.st # "joined"

AllFinished == \A k \in DOMAIN threads : ~Joinable(threads[k])

RenderFinished_gt(current_completed) == current_completed > image_height \/ AllFinished
RenderFinished(current_completed) == current_completed >= image_height \/ AllFinished

\* if (rendering && !rendered): read the counter once, then either go on to
\* the join loop or do the progressive preview and end the iteration (the
\* R branch is not taken while rendered is false).
PollBranch ==
    LET current_completed == completed_rows IN
    /\ polled' = current_completed
    /\ IF RenderFinished(current_completed)
       THEN /\ pc' = "join"
            /\ UNCHANGED <<texture, last_update, pass_update>>
       ELSE /\ pc' = "loop"
            /\ IF current_completed - last_update >= preview_rows
               THEN /\ texture' = "preview"
                    /\ last_update' = current_completed
                    /\ pass_update' = current_completed
               ELSE UNCHANGED <<texture, last_update, pass_update>>

\* else if (rendered) { if (IsKeyPressed(KEY_R)) ... }: blacken the buffer
\* and upload it.
KeysBranch(r) ==
    IF ~(~rendering /\ ~rendered) /\ rendered /\ r
    THEN /\ rendered' = FALSE
         /\ pixels' = AllBlack
         /\ scaled' = NoScaled
         /\ texture' = "reset"
    ELSE UNCHANGED <<rendered, pixels, scaled, texture>>

\* if (!rendering && !rendered && IsKeyPressed(KEY_SPACE))
CanStart_whileRendering(space) == ~rendered /\ space
CanStart_whileRendered(space) == ~rendering /\ space
CanStart(space) == ~rendering /\ ~rendered /\ space

\* One loop iteration from WindowShouldClose(): leave the loop; or take the
\* SPACE branch up to threads.reserve; or, no pass being started, run the
\* rest of the iteration (the poll while rendering, the R branch otherwise).
Frame(close, space, r) ==
    /\ pc = "loop"
    /\ IF close
       THEN /\ pc' = "exit"
            /\ UNCHANGED <<rendering, rendered, completed_rows, threads, spawn_t, writes,
                           pixels, scaled, texture, last_update, polled, pass_update>>
       ELSE IF CanStart(space)
       THEN /\ rendering' = TRUE
            /\ completed_rows' = ProgressReset
            /\ threads' = << >>
            /\ spawn_t' = 0
            /\ writes' = NoWrites
            /\ polled' = 0
            /\ pass_update' = 0
            /\ pc' = "spawn"
            /\ UNCHANGED <<rendered, pixels, scaled, texture, last_update>>
       ELSE IF rendering /\ ~rendered
       THEN /\ PollBranch
            /\ UNCHANGED <<rendering, rendered, completed_rows, threads, spawn_t, writes,
                           pixels, scaled>>
       ELSE /\ KeysBranch(r)
            /\ pc' = "loop"
            /\ UNCHANGED <<rendering, completed_rows, threads, spawn_t, writes,
                           last_update, polled, pass_update>>
    /\ UNCHANGED <<fixedVars, freed, uaf>>

\* One iteration of the spawn loop: threads.emplace_back(render_block, ...).
SpawnThread ==
    /\ pc = "spawn"
    /\ spawn_t < actual_threads
    /\ threads' = Append(threads, NewThread(spawn_t))
    /\ spawn_t' = spawn_t + 1
    /\ UNCHANGED <<fixedVars, pc, rendering, rendered, completed_rows, pixels,
                   last_update, texture, freed, polled, pass_update, uaf, writes, scaled>>

\* The spawn loop has ended: the iteration goes on to its poll.
PollAfterSpawn ==
    /\ pc = "spawn"
    /\ ~(spawn_t < actual_threads)
    /\ PollBranch
    /\ UNCHANGED <<fixedVars, rendering, rendered, threads, spawn_t, completed_rows,
                   pixels, freed, uaf, writes, scaled>>

FirstJoinable == CHOOSE k \in DOMAIN threads :
    Joinable(threads[k]) /\ \A m \in 1 .. (k - 1) : ~Joinable(threads[m])

\* thread.join() of the next joinable thread: returns once it has exited.
JoinThread ==
    /\ pc \in {"join", "exit"}
    /\ ~AllFinished
    /\ threads[FirstJoinable].st = "exited"
    /\ threads' = [threads EXCEPT ![FirstJoinable].st = "joined"]
    /\ UNCHANGED <<fixedVars, pc, rendering, rendered, spawn_t, completed_rows, pixels,
                   last_update, texture, freed, polled, pass_update, uaf, writes, scaled>>

\* After the join loop: final upload, rendering = false, rendered = true.
RenderComplete ==
    /\ pc = "join"
    /\ AllFinished
    /\ texture' = "final"
    /\ rendering' = FALSE
    /\ rendered' = TRUE
    /\ pc' = "keys"
    /\ UNCHANGED <<fixedVars, threads, spawn_t, completed_rows, pixels, last_update,
                   freed, polled, pass_update, uaf, writes, scaled>>

\* The iteration ends after a completed pass: the R branch.
Keys(r) ==
    /\ pc = "keys"
    /\ pc' = "loop"
    /\ KeysBranch(r)
    /\ UNCHANGED <<fixedVars, rendering, threads, spawn_t, completed_rows, last_update,
                   freed, polled, pass_update, uaf, writes>>

\* After the loop and its join loop: UnloadTexture, MemFree(pixels),
\* CloseWindow.
Shutdown_noJoin ==
    /\ pc = "exit"
    /\ freed' = TRUE
    /\ pc' = "done"
    /\ UNCHANGED <<fixedVars, rendering, rendered, threads, spawn_t, completed_rows,
                   pixels, last_update, texture, polled, pass_update, uaf, writes, scaled>>
Shutdown ==
    /\ pc = "exit"
    /\ AllFinished
    /\ freed' = TRUE
    /\ pc' = "done"
    /\ UNCHANGED <<fixedVars, rendering, rendered, threads, spawn_t, completed_rows,
                   pixels, last_update, texture, polled, pass_update, uaf, writes, scaled>>

\* ---------------------------------------------------------- worker steps
\* The body of the i loop for one pixel: sample, tone map, store.  The store
\* goes through the pointer the thread was given, whatever has become of the
\* buffer.
WritePixel(w) ==
    /\ threads[w].st = "running"
    /\ threads[w].j < threads[w].end_row
    /\ threads[w].i < image_width
    /\ \E samples \in {SamplesOf(seed, w - 1, threads[w].rng)} :
        \E sum \in {PixelSum(samples, world, max_depth)} :
        \E s \in {Scaled(sum, samples_per_pixel)} :
        \E idx \in {PixelIndex(threads[w].j, threads[w].i, image_width)} :
            /\ pixels' = [pixels EXCEPT ![idx] = ToColor(s)]
            /\ scaled' = [scaled EXCEPT ![idx] = s]
            /\ writes' = [writes EXCEPT ![idx] = Append(@, w)]
    /\ uaf' = (uaf \/ freed)
    /\ threads' = [threads EXCEPT ![w].i = @ + 1, ![w].rng = @ + samples_per_pixel]
    /\ UNCHANGED <<fixedVars, pc, rendering, rendered, spawn_t, completed_rows,
                   last_update, texture, freed, polled, pass_update>>

\* completed_rows.fetch_add(1): one indivisible read-modify-write.
FetchAdd_lost(c) == c
FetchAdd_two(c) == c + 2
FetchAdd(c) == c + 1

\* End of a row: completed_rows.fetch_add(1), then ++j.
RowDone(w) ==
    /\ threads[w].st = "running"
    /\ threads[w].j < threads[w].end_row
    /\ ~(threads[w].i < image_width)
    /\ completed_rows' = FetchAdd(completed_rows)
    /\ threads' = [threads EXCEPT ![w].j = @ + 1, ![w].i = 0]
    /\ UNCHANGED <<fixedVars, pc, rendering, rendered, spawn_t, pixels, last_update,
                   texture, freed, polled, pass_update, uaf, writes, scaled>>

\* render_block returns: the thread has run to its end.
ThreadExit(w) ==
    /\ threads[w].st = "running"
    /\ ~(threads[w].j < threads[w].end_row)
    /\ threads' = [threads EXCEPT ![w].st = "exited"]
    /\ UNCHANGED <<fixedVars, pc, rendering, rendered, spawn_t, completed_rows, pixels,
                   last_update, texture, freed, polled, pass_update, uaf, writes, scaled>>

WorkerStep(w) == w \in DOMAIN threads /\ (WritePixel(w) \/ RowDone(w) \/ ThreadExit(w))

Next ==
    \/ AddSphere
    \/ InitCamera
    \/ \E close, space, r \in BOOLEAN : Frame(close, space, r)
    \/ SpawnThread
    \/ PollAfterSpawn
    \/ JoinThread
    \/ RenderComplete
    \/ \E r \in BOOLEAN : Keys(r)
    \/ Shutdown
    \/ \E w \in DOMAIN threads : WritePixel(w)
    \/ \E w \in DOMAIN threads : RowDone(w)
    \/ \E w \in DOMAIN threads : ThreadExit(w)

Spec == Init /\ [][Next]_vars

\* The operating system runs the threads that can run: the main thread takes
\* its next step eventually, and while some worker can step, some worker does.
\* Nothing is assumed of the user: no key press and no closing of the window
\* is ever forced.
MainRun ==
    \/ AddSphere
    \/ InitCamera
    \/ Frame(FALSE, FALSE, FALSE)
    \/ SpawnThread
    \/ PollAfterSpawn
    \/ JoinThread
    \/ RenderComplete
    \/ Keys(FALSE)
    \/ Shutdown
AnyWorkerStep == \E w \in DOMAIN threads : WorkerStep(w)
FairSpec ==
    /\ Spec
    /\ WF_vars(MainRun)
    /\ WF_vars(AnyWorkerStep)

\* -------------------------------------------- ray_color evaluated alone
\* One call ray_color(r, world, depth) on any ray, any of the scenes and any
\* depth from 0 to max_depth.
InitRC ==
    /\ MainInit(1)
    /\ part = PartIdle
    /\ \E p \in Paths, wd \in Worlds, d \in 0 .. max_depth :
        rc = [st |-> "ready", path |-> p, world |-> wd, depth |-> d, out |-> << >>]

RayColorCall ==
    /\ rc.st = "ready"
    /\ rc' = [rc EXCEPT !.st = "done", !.out = RayColor(rc.path, rc.world, rc.depth)]
    /\ UNCHANGED <<mainVars, part>>

NextRC == RayColorCall

SpecRC == InitRC /\ [][NextRC]_vars

\* ---------------------------------------- the row partition evaluated alone
\* The spawn loop's start_row / end_row for any thread count n and height h.
InitPart ==
    /\ MainInit(1)
    /\ rc = RcIdle
    /\ \E n \in 1 .. MaxPartThreads, h \in 1 .. MaxPartHeight :
        part = [st |-> "run", n |-> n, h |-> h, t |-> 0, ranges |-> << >>]

PartitionStep ==
    /\ part.st = "run"
    /\ part.t < part.n
    /\ part' = [part EXCEPT
                  !.t = @ + 1,
                  !.ranges = Append(@, << StartRow(part.t, part.h, part.n),
                                          EndRow(part.t, part.h, part.n) >>)]
    /\ UNCHANGED <<mainVars, rc>>

PartitionDone ==
    /\ part.st = "run"
    /\ ~(part.t < part.n)
    /\ part' = [part EXCEPT !.st = "done"]
    /\ UNCHANGED <<mainVars, rc>>

NextPart == PartitionStep \/ PartitionDone

SpecPart == InitPart /\ [][NextPart]_vars

\* ================================================================ properties
\* Every worker of the current pass has been spawned and joined.
PassJoined ==
    /\ pc # "spawn"
    /\ threads # << >>
    /\ Len(threads) = actual_threads
    /\ AllFinished

\* C1: once the workers of a render pass are all joined, every pixel index
\* 0 .. width*height-1 has been written exactly once in that pass, hence by
\* exactly one worker; and at no moment of the pass has an index been written
\* twice or by two workers.
C1_WrittenExactlyOnce ==
    /\ \A idx \in PixelIndices : Len(writes[idx]) <= 1
    /\ PassJoined => \A idx \in PixelIndices : Len(writes[idx]) = 1

\* A finished pass of two workers, each of which wrote pixels.
C1_Witness ==
    /\ PassJoined
    /\ rendered
    /\ actual_threads = 2
    /\ \E a, b \in PixelIndices : writes[a] = << 1 >> /\ writes[b] = << 2 >>

\* C2: from the reset at render start to the join, no step lowers
\* completed_rows, and when all workers of the pass have been joined it equals
\* image_height.
C2_ProgressMonotone ==
    /\ [][(rendering /\ rendering') => completed_rows' >= completed_rows]_vars
    /\ [](PassJoined => completed_rows = image_height)

\* A pass of two workers joined by the event loop, the counter at the height.
C2_Witness ==
    /\ PassJoined
    /\ pc = "join"
    /\ actual_threads = 2
    /\ completed_rows = image_height

\* C3: in every reachable state, over any number of passes and re-renders,
\* 0 <= completed_rows <= image_height.
C3_ProgressInRange == completed_rows >= 0 /\ completed_rows <= image_height

\* A second pass (the texture still holds the upload of the R reset) whose
\* workers have finished every row.
C3_Witness ==
    /\ rendering
    /\ texture = "reset"
    /\ completed_rows = image_height

\* C4 as stated: when hardware_concurrency() returns 0 the configuration is
\* rejected, and no worker thread is ever spawned.
C4_ZeroThreadsRejected == (num_threads = 0) => threads = << >>

\* C4 as the code has it: when hardware_concurrency() returns 0 nothing is
\* rejected; main prints that the count could not be detected, substitutes 4
\* for it, and a render pass started by SPACE spawns 4 workers.
C4_ZeroThreadsDefaulted ==
    (num_threads = 0) =>
        /\ actual_threads = 4
        /\ Head(console) = "Could not detect number of threads, using 4"
        /\ (rendering /\ pc # "spawn") => Len(threads) = 4

\* No thread count detected, and the fourth worker of the pass is at work.
C4_Witness ==
    /\ num_threads = 0
    /\ rendering
    /\ Len(threads) = 4
    /\ threads[4].st = "running"
    /\ threads[4].j > threads[4].start_row

\* C5: a pass that SPACE has started completes: whenever rendering is true,
\* then, the threads being scheduled fairly, either the window is closed or
\* the program reaches rendering = false, rendered = true with every worker
\* joined.
RenderCompleted == ~rendering /\ rendered /\ PassJoined
WindowClosed == pc \in {"exit", "done"}
C5_PassCompletes == [](rendering => <>(RenderCompleted \/ WindowClosed))

\* A pass completed by the event loop while the window is open.
C5_Witness == RenderCompleted /\ ~WindowClosed /\ actual_threads = 2

\* C6: ray_color with depth = 0 returns exactly (0,0,0) for any ray and any
\* scene, in one invocation that queries neither the scene nor a material.
C6_DepthZeroBlack ==
    (rc.st = "done" /\ rc.depth = 0) =>
        /\ rc.out.color = << 0, 0, 0 >>
        /\ rc.out.calls = 1
        /\ rc.out.hits = 0
        /\ rc.out.scatters = 0

\* depth = 0 on a ray that would meet the ground sphere of the full scene.
C6_Witness ==
    /\ rc.st = "done"
    /\ rc.depth = 0
    /\ rc.world = MainWorld
    /\ rc.path[1].obj = 1

\* C7: in a scene with zero shapes, for every ray and every depth the renderer
\* runs with (depth >= 1), ray_color takes the no-hit branch, makes no
\* recursive call and returns the sky gradient of the ray's vertical direction
\* component y: (1-t)*(1,1,1) + t*(0.5,0.7,1.0), t = (y+1)/2; never black.
C7_EmptySceneSky ==
    (rc.st = "done" /\ rc.world = << >> /\ rc.depth >= 1) =>
        LET t == (rc.path[1].y + 1000) \div 2 IN
        /\ rc.out.branch = "sky"
        /\ rc.out.calls = 1
        /\ rc.out.color = << ((1000 - t) * 1000 + t * 500) \div 1000,
                             ((1000 - t) * 1000 + t * 700) \div 1000,
                             ((1000 - t) * 1000 + t * 1000) \div 1000 >>
        /\ rc.out.color # << 0, 0, 0 >>

\* The empty scene, full depth, a ray that points upward.
C7_Witness ==
    /\ rc.st = "done"
    /\ rc.world = << >>
    /\ rc.depth = max_depth
    /\ rc.path[1].y = 600

\* The camera ray meets one of the two diffuse spheres of the scenario.
HitsDiffuse == rc.world = TwoSphereWorld /\ rc.path[1].obj \in {1, 2}

\* C8 as stated: with depth = 1, a camera ray that hits a diffuse sphere gets
\* a colour different from (0,0,0).
C8_HitNotBlack ==
    (rc.st = "done" /\ rc.depth = 1 /\ HitsDiffuse) => rc.out.color # << 0, 0, 0 >>

\* C8 as the code has it: with depth = 1, a camera ray that hits a diffuse
\* sphere gets exactly (0,0,0), the albedo times the colour of the scattered
\* ray at depth 0; only a ray that misses both spheres gets a non-black (sky)
\* colour.
C8_HitBlackAtDepthOne ==
    (rc.st = "done" /\ rc.depth = 1 /\ rc.world = TwoSphereWorld) =>
        IF rc.path[1].obj \in {1, 2}
        THEN rc.out.color = << 0, 0, 0 >> /\ rc.out.branch = "scatter" /\ rc.out.calls = 2
        ELSE rc.out.color # << 0, 0, 0 >> /\ rc.out.branch = "sky"

\* depth = 1, the ray meets the small sphere, the scattered ray would see sky.
C8_Witness ==
    /\ rc.st = "done"
    /\ rc.depth = 1
    /\ rc.world = TwoSphereWorld
    /\ rc.path[1].obj = 2
    /\ rc.path[2].obj = 0

\* C9: for every n >= 1 and h >= 1 the n ranges [start_row, end_row) start at
\* 0, end at h, each begins where the one before ends, all but the last hold
\* h div n rows and the last holds h div n + h mod n, so that every row of
\* 0 .. h-1 lies in exactly one range.
C9_RowPartition ==
    (part.st = "done") =>
        LET n == part.n
            h == part.h
            R == part.ranges
        IN  /\ Len(R) = n
            /\ R[1][1] = 0
            /\ R[n][2] = h
            /\ \A t \in 1 .. n : R[t][1] <= R[t][2]
            /\ \A t \in 1 .. (n - 1) : R[t][2] = R[t + 1][1]
            /\ \A t \in 1 .. (n - 1) : R[t][2] - R[t][1] = h \div n
            /\ R[n][2] - R[n][1] = (h \div n) + (h % n)
            /\ \A row \in 0 .. (h - 1) :
                Cardinality({t \in 1 .. n : R[t][1] <= row /\ row < R[t][2]}) = 1

\* More threads than rows, the height not a multiple of the thread count.
C9_Witness ==
    /\ part.st = "done"
    /\ part.n = 4
    /\ part.h = 3

\* C10: every cell of the buffer has alpha 255 in every reachable state, and
\* every channel a worker wrote is 256 * c truncated, for a c clamped to
\* [0, 0.999]: it is at most 255 before the byte cast, so the cast keeps it.
ChannelOk(byte, s) ==
    /\ s >= 0
    /\ s * 1000 <= 256 * 999
    /\ byte = s
    /\ byte \in 0 .. 255
C10_OpaqueAndInRange ==
    \A idx \in PixelIndices :
        /\ pixels[idx].a = 255
        /\ ChannelOk(pixels[idx].r, scaled[idx][1])
        /\ ChannelOk(pixels[idx].g, scaled[idx][2])
        /\ ChannelOk(pixels[idx].b, scaled[idx][3])

\* A worker has written a full white pixel (every channel clamped to 0.999),
\* in a pass that follows an R reset.
C10_Witness ==
    /\ texture = "reset"
    /\ \E idx \in PixelIndices :
        /\ writes[idx] # << >>
        /\ pixels[idx] = [r |-> 255, g |-> 255, b |-> 255, a |-> 255]

\* The pixel a sequential render gives index idx: the row's worker is found
\* from the height and the thread count alone, and the samples are the draws
\* its generator yields at that place of its range.
ReferencePixel(idx) ==
    LET j == idx \div image_width
        i == idx % image_width
        rpt == image_height \div actual_threads
        t == IF rpt = 0 \/ j \div rpt > actual_threads - 1
             THEN actual_threads - 1 ELSE j \div rpt
        k == ((j - t * rpt) * image_width + i) * samples_per_pixel
    IN  ToColor(Scaled(PixelSum(SamplesOf(seed, t, k), MainWorld, max_depth),
                       samples_per_pixel))

RowWritten(j) == writes[j * image_width + (image_width - 1)] # << >>
RowsWritten == Cardinality({j \in 0 .. (image_height - 1) : RowWritten(j)})

\* C12: the buffer counts as complete only after it is fully written.  While
\* rendered is true (from the step that sets it, with the final upload, until
\* R), every pixel has been written by a worker in the current pass and every
\* worker of the pass has been joined; and at every moment completed_rows is
\* at most the number of rows whose last pixel has been written.
C12_CompleteOnlyWhenWritten ==
    /\ rendered =>
         /\ \A idx \in PixelIndices : writes[idx] # << >>
         /\ Len(threads) = actual_threads
         /\ AllFinished
         /\ texture = "final"
    /\ completed_rows <= RowsWritten

\* The event loop has just set rendered: the buffer is full, the workers are
\* joined and the counter has reached the height.
C12_Witness ==
    /\ pc = "keys"
    /\ rendered
    /\ \A idx \in PixelIndices : Len(writes[idx]) = 1
    /\ completed_rows = image_height
    /\ RowsWritten = image_height
    /\ texture = "final"

\* The rows worker w has finished in the current pass, one fetch_add each.
RowsFinished(w) == threads[w].j - threads[w].start_row

RECURSIVE SumRowsFinished(_)
SumRowsFinished(n) == IF n = 0 THEN 0 ELSE RowsFinished(n) + SumRowsFinished(n - 1)

\* The SPACE branch runs completed_rows.store(0) in this step.
PassStarts == pc = "loop" /\ pc' = "spawn"

\* C13: no progress update is lost.  Under every interleaving completed_rows
\* equals the sum, over the workers of the current pass, of the rows each has
\* finished since the counter was reset; and when a pass resets the counter,
\* every worker of the pass before it has been joined, so that none of them
\* can increment the counter afterwards.
C13_NoLostUpdate ==
    /\ [](completed_rows = SumRowsFinished(Len(threads)))
    /\ [][PassStarts => (AllFinished /\ completed_rows' = 0 /\ threads' = << >>)]_vars

\* In a pass started after an R reset, two workers have each finished a row
\* and the counter holds both increments.
C13_Witness ==
    /\ rendering
    /\ texture = "reset"
    /\ completed_rows = 2
    /\ \E a, b \in DOMAIN threads :
         a # b /\ RowsFinished(a) = 1 /\ RowsFinished(b) = 1

\* Where the event loop stands: no pass yet or reset by R, a pass in flight,
\* a pass completed.
Phase ==
    IF rendering /\ rendered THEN "both"
    ELSE IF rendering THEN "rendering"
    ELSE IF rendered THEN "rendered"
    ELSE "idle"

\* C14: at most one render pass is in flight.  rendering and rendered are
\* never both true; the flags only move idle -> rendering (the SPACE branch),
\* rendering -> rendered (after the join loop) and rendered -> idle (the R
\* reset); a worker is spawned only in the spawn loop of the iteration that
\* made the idle -> rendering step; while rendering, no step starts a pass or
\* resets the buffer or the counter, whatever keys are pressed; and when a
\* pass starts (threads.clear() runs) every worker of the pass before it has
\* been joined.
C14_OnePassInFlight ==
    /\ [](Phase # "both")
    /\ [][ /\ (Phase' # Phase) =>
                \/ Phase = "idle" /\ Phase' = "rendering" /\ PassStarts
                \/ Phase = "rendering" /\ Phase' = "rendered" /\ pc = "join"
                \/ Phase = "rendered" /\ Phase' = "idle" /\ texture' = "reset"
           /\ (Len(threads') > Len(threads)) =>
                /\ pc = "spawn"
                /\ Phase = "rendering"
                /\ Len(threads') = Len(threads) + 1
           /\ PassStarts => (Phase = "idle" /\ AllFinished)
           /\ (Phase = "rendering") =>
                /\ ~PassStarts
                /\ (texture' = "reset") => (texture = "reset")
                /\ (pixels' = AllBlack) => (pixels = AllBlack)
                /\ completed_rows' >= completed_rows
                /\ \A idx \in PixelIndices : Len(writes'[idx]) >= Len(writes[idx])
         ]_vars

\* After a completed pass and an R reset, the spawn loop of a new pass has
\* started its first worker, every worker of the pass before having been
\* joined.
C14_Witness ==
    /\ pc = "spawn"
    /\ Phase = "rendering"
    /\ texture = "reset"
    /\ Len(threads) = 1
    /\ last_update > 0

\* Some worker thread has been started and has not yet returned.
WorkerRunning == \E w \in DOMAIN threads : threads[w].st = "running"

\* C15: the scene and the camera are fully constructed before any worker
\* starts and the main thread does not change them afterwards.  Whenever the
\* spawn loop runs or a worker exists, in the first pass and in every later
\* one, world holds every sphere main adds and cam.initialize() has run; and
\* once the event loop is entered, hence while any worker is running, no
\* step writes world or cam.
C15_SceneBuiltBeforeWorkers ==
    /\ []((pc = "spawn" \/ threads # << >>) =>
            (world = MainWorld /\ cam = "initialized"))
    /\ [][(pc # "scene" \/ WorkerRunning) => (world' = world /\ cam' = cam)]_vars

\* A worker of a re-render (a pass started after R) is running on the
\* complete scene.
C15_Witness ==
    /\ WorkerRunning
    /\ rendering
    /\ last_update > 0
    /\ pass_update = 0
    /\ world = MainWorld
    /\ cam = "initialized"
    /\ \E idx \in PixelIndices : writes[idx] # << >>

\* Leg k of the path is a hit whose material scatters: the recursion goes on.
LegContinues(p, wd, k) == WorldHit(wd, p[k]) /\ ScatterOk(wd[p[k].obj], p[k])

\* The first leg among the d the budget allows that ends the path (a miss or
\* a failed scatter); d + 1 if all d legs scatter.
FirstStop(p, wd, d) ==
    IF \E k \in 1 .. d : ~LegContinues(p, wd, k)
    THEN CHOOSE k \in 1 .. d :
           ~LegContinues(p, wd, k) /\ \A m \in 1 .. (k - 1) : LegContinues(p, wd, m)
    ELSE d + 1

\* What the path ends with: the sky colour of the first ray that misses,
\* black for a failed scatter or an exhausted budget.
TerminalColor(p, wd, d) ==
    LET s == FirstStop(p, wd, d) IN
    IF s > d THEN <<0, 0, 0>>
    ELSE IF WorldHit(wd, p[s]) THEN <<0, 0, 0>>
    ELSE Sky(p[s].y)

\* acc attenuated by the materials of legs k, k-1, ..., 1, innermost first.
RECURSIVE AttenuatedBy(_, _, _, _)
AttenuatedBy(p, wd, k, acc) ==
    IF k = 0 THEN acc
    ELSE LET al == wd[p[k].obj].albedo
         IN  AttenuatedBy(p, wd, k - 1,
                          << (al[1] * acc[1]) \div Unit, (al[2] * acc[2]) \div Unit,
                             (al[3] * acc[3]) \div Unit >>)

\* C16: ray_color terminates within its depth budget.  For any ray, scene and
\* hit / scatter outcomes, a call with depth d >= 0 makes at most d scene
\* queries and at most d + 1 nested invocations: one per leg up to the first
\* leg that ends the path, each with a budget one smaller.  The result is
\* black when a scatter fails or the budget runs out, and otherwise the
\* component-wise product of the attenuations along the path with the sky
\* colour of the first ray that misses.
C16_BoundedRecursion ==
    (rc.st = "done") =>
        LET d == rc.depth
            s == FirstStop(rc.path, rc.world, d)
            t == TerminalColor(rc.path, rc.world, d)
        IN  /\ rc.out.hits <= d
            /\ rc.out.calls <= d + 1
            /\ rc.out.calls = (IF s > d THEN d + 1 ELSE s)
            /\ rc.out.hits = (IF s > d THEN d ELSE s)
            /\ rc.out.color = AttenuatedBy(rc.path, rc.world, s - 1, t)
            /\ (t = <<0, 0, 0>>) => (rc.out.color = <<0, 0, 0>>)

\* A call with depth 2 on the main scene whose ray meets the brown diffuse
\* sphere and then the sky: two invocations, and the sky colour attenuated by
\* the sphere's albedo.
C16_Witness ==
    /\ rc.st = "done"
    /\ rc.depth = 2
    /\ rc.world = MainWorld
    /\ rc.path[1].obj = 3
    /\ rc.path[2].obj = 0
    /\ rc.out.calls = 2
    /\ rc.out.hits = 2
    /\ rc.out.color = <<(400 * Sky(rc.path[2].y)[1]) \div Unit,
                        (200 * Sky(rc.path[2].y)[2]) \div Unit,
                        (100 * Sky(rc.path[2].y)[3]) \div Unit>>
    /\ rc.out.color # <<0, 0, 0>>

\* C17: a pass that has started runs to completion even when the window is
\* closed while it renders.  When the buffer has been freed, every worker has
\* been joined after finishing all rows of its range; if the loop was left
\* with a pass in flight, that pass has written every pixel and counted every
\* row; and no worker has stored a pixel after MemFree.
C17_JoinBeforeFree ==
    /\ ~uaf
    /\ (pc = "done") = freed
    /\ freed =>
         /\ \A w \in DOMAIN threads :
              /\ threads[w].st = "joined"
              /\ threads[w].j = threads[w].end_row
         /\ rendering =>
              /\ Len(threads) = actual_threads
              /\ \A idx \in PixelIndices : Len(writes[idx]) = 1
              /\ completed_rows = image_height

\* The window was closed while the pass was rendering, before the event loop
\* had seen any row completed: the buffer is freed with the pass complete.
C17_Witness ==
    /\ freed
    /\ rendering
    /\ ~rendered
    /\ polled = 0
    /\ actual_threads = 2
    /\ \A w \in DOMAIN threads : threads[w].st = "joined"
    /\ \A idx \in PixelIndices : Len(writes[idx]) = 1

\* C18: the progressive preview works in every pass.  After an iteration of
\* the event loop that polled the counter and found the pass unfinished, the
\* rows the poll read (polled) are fewer than preview_rows ahead of the rows
\* at the last preview upload of this pass (pass_update, 0 at the start of
\* the pass): had they been preview_rows or more ahead, the iteration would
\* have uploaded the buffer and the two would be equal.
C18_PreviewEveryPass ==
    (pc = "loop" /\ rendering /\ ~rendered) => (polled - pass_update < preview_rows)

\* A step of the main thread that stores into the pixel buffer: the buffer
\* changes and no worker has moved, or the R branch clears rendered.
MainWritesBuffer ==
    \/ pixels' # pixels /\ threads' = threads
    \/ rendered /\ ~rendered'

\* A step in which a worker stores a pixel.
WorkerWritesBuffer == \E idx \in PixelIndices : writes'[idx] # writes[idx] /\ writes'[idx] # << >>

\* C19: the main thread writes to the pixel buffer only while no worker is
\* running.  Until the event loop is entered the buffer holds the initial
\* black fill and no worker exists; the only later main-thread write is the R
\* reset, which runs in the rendered state with every worker of the pass
\* joined, and a worker stores pixels only while its pass is rendering: no
\* main-thread write meets a worker's write.
C19_MainWritesAlone ==
    /\ []((pc = "scene") => (threads = << >> /\ pixels = AllBlack))
    /\ [][ /\ MainWritesBuffer =>
                /\ Phase = "rendered"
                /\ Phase' = "idle"
                /\ ~WorkerRunning
                /\ AllFinished
                /\ Len(threads) = actual_threads
                /\ pixels' = AllBlack
           /\ WorkerWritesBuffer => (Phase = "rendering" /\ ~MainWritesBuffer)
         ]_vars

\* R has just blackened the buffer of a completed pass: every worker of the
\* pass is joined and none of the next pass exists yet.
C19_Witness ==
    /\ Phase = "idle"
    /\ pc = "loop"
    /\ texture = "reset"
    /\ pixels = AllBlack
    /\ Len(threads) = actual_threads
    /\ AllFinished
    /\ \A idx \in PixelIndices : Len(writes[idx]) = 1
====
